---- MODULE Spec2Model ----
(***************************************************************************)
(* A model of the tile server in src/src/main.rs: the point ingestor       *)
(* (load_points_from_dir and the field coercions), the heatmap renderer    *)
(* (generate_tile, color_map) and the two request handlers (tile, range)   *)
(* that share one RTree behind an Arc<Mutex<..>>.                          *)
(*                                                                         *)
(* Conventions.                                                            *)
(*  - Option<T> is a sequence: <<>> is None and <<v>> is Some(v).          *)
(*  - An f64 is a record [k, n]: k = "num" with the value n, or k = "inf", *)
(*    "ninf", "nan" (n = 0).  Finite values are integers of the model's    *)
(*    length unit.                                                         *)
(*  - A DateTime<Utc> is a record [s, us]: seconds since the epoch and the *)
(*    microseconds within the second.                                      *)
(*  - A string handed to a chrono parser is a record whose field form says *)
(*    which grammar the text belongs to ("rfc3339", "naive", "date",       *)
(*    "bad"); the parsers are chrono's, the order in which the program     *)
(*    tries them is the program's.                                         *)
(***************************************************************************)
EXTENDS Integers, Sequences, FiniteSets, TLC

(***************************************************************************)
(* Bounds of the model.                                                    *)
(***************************************************************************)
NumTiles == 2        \* tile requests in flight
NumRefreshes == 2    \* /range requests in flight
MaxZoom == 1         \* tile addresses have zoom 0..MaxZoom
HalfTile == 4        \* half the side of a zoom-MaxZoom tile, in model length units
GridSize == 2        \* side of the pixel grid (256 in the program)
MaxRows == 4         \* rows of a drawn partition (ingestor specification)
MaxPoints == 3       \* points of a drawn index (renderer specification)

(***************************************************************************)
(* Program constants.                                                      *)
(***************************************************************************)
WindowHours == 24
SecondsPerHour == 3600
SecondsPerDay == 86400
ChannelMax == 255

None == <<>>
Some(v) == <<v>>
IsSome(o) == o # <<>>
Unwrap(o) == o[1]
UnwrapOr(o, d) == IF o = <<>> THEN d ELSE o[1]

(***************************************************************************)
(* f64                                                                     *)
(***************************************************************************)
Num(n) == [k |-> "num", n |-> n]
PosInf == [k |-> "inf", n |-> 0]
NegInf == [k |-> "ninf", n |-> 0]
NaN == [k |-> "nan", n |-> 0]

IsFinite(f) == f.k = "num"

\* a <= b on f64: false as soon as one side is NaN
FLe(a, b) ==
    CASE a.k = "nan" \/ b.k = "nan" -> FALSE
      [] a.k = "ninf" \/ b.k = "inf" -> TRUE
      [] a.k = "inf" \/ b.k = "ninf" -> FALSE
      [] OTHER -> a.n <= b.n

(***************************************************************************)
(* DateTime<Utc>                                                           *)
(***************************************************************************)
At(s, us) == [s |-> s, us |-> us]

TsLe(a, b) == a.s < b.s \/ (a.s = b.s /\ a.us <= b.us)
TsLt(a, b) == a.s < b.s \/ (a.s = b.s /\ a.us < b.us)

\* dt - Duration::hours(h)
MinusHours(dt, h) == At(dt.s - h * SecondsPerHour, dt.us)

(***************************************************************************)
(* parquet::record::Field and Row                                          *)
(***************************************************************************)
NoStr == [form |-> "none", dt |-> At(0, 0), day |-> 0]
Rfc3339Str(dt) == [form |-> "rfc3339", dt |-> dt, day |-> 0]   \* "2023-05-01T10:00:00Z"
NaiveStr(dt) == [form |-> "naive", dt |-> dt, day |-> 0]       \* "2023-05-01 10:00:00"
DateStr(d) == [form |-> "date", dt |-> At(0, 0), day |-> d]    \* "2023-05-01"
BadStr == [form |-> "bad", dt |-> At(0, 0), day |-> 0]         \* anything else

Field(t, f, i, str) == [t |-> t, f |-> f, i |-> i, str |-> str]
FDouble(f) == Field("Double", f, 0, NoStr)
FFloat(f) == Field("Float", f, 0, NoStr)
FInt(i) == Field("Int", Num(0), i, NoStr)
FLong(i) == Field("Long", Num(0), i, NoStr)
FUInt(i) == Field("UInt", Num(0), i, NoStr)
FULong(i) == Field("ULong", Num(0), i, NoStr)
FMillis(i) == Field("TimestampMillis", Num(0), i, NoStr)
FMicros(i) == Field("TimestampMicros", Num(0), i, NoStr)
FDate(i) == Field("Date", Num(0), i, NoStr)
FStr(str) == Field("Str", Num(0), 0, str)
FBool == Field("Bool", Num(0), 0, NoStr)

Col(n, field) == [n |-> n, field |-> field]

\* the first column of the row called name, as an Option
FindColumn(row, name) ==
    LET hits == {j \in 1..Len(row) : row[j].n = name}
    IN  IF hits = {} THEN None
        ELSE Some(row[CHOOSE j \in hits : \A h \in hits : j <= h].field)

get_f64_by_name(row, name) ==
    LET c == FindColumn(row, name)
    IN  IF c = None THEN None
        ELSE LET field == Unwrap(c)
             IN  CASE field.t \in {"Double", "Float"} -> Some(field.f)
                   [] field.t \in {"Int", "Long", "UInt", "ULong"} -> Some(Num(field.i))
                   [] OTHER -> None

\* chrono's parsers, on the grammar the text belongs to
parse_from_rfc3339(str) == IF str.form = "rfc3339" THEN Some(str.dt) ELSE None
parse_naive_datetime(str) == IF str.form = "naive" THEN Some(str.dt) ELSE None
parse_naive_date(str) == IF str.form = "date" THEN Some(str.day) ELSE None

OrElse(o, alt) == IF IsSome(o) THEN o ELSE alt

get_datetime_by_name(row, name) ==
    LET c == FindColumn(row, name)
    IN  IF c = None THEN None
        ELSE LET field == Unwrap(c)
             IN  CASE field.t = "TimestampMillis" ->
                        Some(At(field.i \div 1000, (field.i % 1000) * 1000))
                   [] field.t = "TimestampMicros" ->
                        Some(At(field.i \div 1000000, field.i % 1000000))
                   [] field.t \in {"Int", "Long"} -> Some(At(field.i, 0))
                   [] field.t = "Date" -> Some(At(field.i * SecondsPerDay, 0))
                   [] field.t = "Str" ->
                        OrElse(parse_from_rfc3339(field.str), parse_naive_datetime(field.str))
                   [] OTHER -> None

parse_input_datetime(str, end_of_day) ==
    LET d == parse_naive_date(str)
    IN  OrElse(parse_from_rfc3339(str),
               IF d = None THEN None
               ELSE IF end_of_day
                    THEN Some(At(Unwrap(d) * SecondsPerDay + (23 * 3600 + 59 * 60 + 59), 0))
                    ELSE Some(At(Unwrap(d) * SecondsPerDay, 0)))

(***************************************************************************)
(* load_points_from_dir.  The directory is the sequence of the rows its    *)
(* readable parquet files yield, in the order WalkDir visits them.         *)
(***************************************************************************)
DataPoint(x, y) == [x |-> x, y |-> y]

\* the row loop: all_points and max_time after rows[i..]
RECURSIVE ScanRows(_, _, _, _)
ScanRows(rows, i, all_points, max_time) ==
    IF i > Len(rows) THEN [all_points |-> all_points, max_time |-> max_time]
    ELSE LET row == rows[i]
             x == UnwrapOr(get_f64_by_name(row, "longitude"), Num(0))
             y == UnwrapOr(get_f64_by_name(row, "latitude"), Num(0))
             ts == get_datetime_by_name(row, "BaseDateTime")
         IN  IF IsSome(ts)
             THEN ScanRows(rows, i + 1,
                           Append(all_points, [pt |-> DataPoint(x, y), ts |-> Unwrap(ts)]),
                           IF max_time = None \/ TsLt(Unwrap(max_time), Unwrap(ts))
                           THEN ts ELSE max_time)
             ELSE ScanRows(rows, i + 1, all_points, max_time)

InWindow(ts, start_time, end_time) == TsLe(start_time, ts) /\ TsLe(ts, end_time)

RECURSIVE MapPt(_)
MapPt(tagged) ==
    IF tagged = <<>> THEN <<>> ELSE <<Head(tagged).pt>> \o MapPt(Tail(tagged))

\* a slip: the default start taken from the newest row, not from the end in force
DefaultStartFromMax(end_time, max) == MinusHours(max, WindowHours)

\* end_time - Duration::hours(24)
DefaultStart(end_time, max) == MinusHours(end_time, WindowHours)

load_points_from_dir(rows, start, end) ==
    LET scan == ScanRows(rows, 1, <<>>, None)
    IN  IF IsSome(scan.max_time)
        THEN LET max == Unwrap(scan.max_time)
                 end_time == UnwrapOr(end, max)
                 start_time == UnwrapOr(start, DefaultStart(end_time, max))
                 Keep(e) == InWindow(e.ts, start_time, end_time)
             IN  MapPt(SelectSeq(scan.all_points, Keep))
        ELSE <<>>

(***************************************************************************)
(* Coordinate projector.  tile2mercator composed with lnglat_to_meters is  *)
(* x = origin_shift * (2 xtile / n - 1), y = origin_shift * (1 - 2 ytile / *)
(* n), because ln(tan(pi/4 + atan(sinh(u))/2)) = u.  The length unit is    *)
(* chosen so that every tile corner up to MaxZoom is an integer.           *)
(***************************************************************************)
RECURSIVE Pow2(_)
Pow2(e) == IF e = 0 THEN 1 ELSE 2 * Pow2(e - 1)

origin_shift == HalfTile * Pow2(MaxZoom)

tile2mercator(xtile, ytile, zoom) ==
    LET n == Pow2(zoom)
    IN  [x |-> (origin_shift * (2 * xtile - n)) \div n,
         y |-> (origin_shift * (n - 2 * ytile)) \div n]

(***************************************************************************)
(* RTree<DataPoint>: the bulk-loaded points, as the sequence they were     *)
(* loaded from (duplicates kept).                                          *)
(***************************************************************************)
bulk_load(points) == points

Min(a, b) == IF a <= b THEN a ELSE b
Max(a, b) == IF a >= b THEN a ELSE b

\* AABB::from_corners orders the corners component-wise
AABB_from_corners(p1, p2) ==
    [lower |-> <<Min(p1[1], p2[1]), Min(p1[2], p2[2])>>,
     upper |-> <<Max(p1[1], p2[1]), Max(p1[2], p2[2])>>]

\* the envelope of p (a degenerate box) lies in the closed box bbox
InEnvelope(p, bbox) ==
    /\ FLe(Num(bbox.lower[1]), p.x) /\ FLe(p.x, Num(bbox.upper[1]))
    /\ FLe(Num(bbox.lower[2]), p.y) /\ FLe(p.y, Num(bbox.upper[2]))

(***************************************************************************)
(* Heatmap renderer                                                        *)
(***************************************************************************)
width == GridSize
height == GridSize
Cells == 0..(width * height - 1)

\* f64 as i32: truncation toward zero
TruncDiv(a, b) == IF a >= 0 THEN a \div b ELSE -((-a) \div b)

TileBox(zoom, x, y) ==
    LET lt == tile2mercator(x, y, zoom)
        rb == tile2mercator(x + 1, y + 1, zoom)
    IN  [xleft |-> lt.x, ytop |-> lt.y, xright |-> rb.x, ybottom |-> rb.y,
         bbox |-> AABB_from_corners(<<lt.x, rb.y>>, <<rb.x, lt.y>>)]

ZeroCounts == [c \in Cells |-> 0]

\* one turn of the loop over the points the range query yields
BinPoint(counts, p, tb) ==
    LET px == TruncDiv((p.x.n - tb.xleft) * width, tb.xright - tb.xleft)
        py == TruncDiv((tb.ytop - p.y.n) * height, tb.ytop - tb.ybottom)
    IN  IF px >= 0 /\ px < width /\ py >= 0 /\ py < height
        THEN [counts EXCEPT ![py * width + px] = @ + 1]
        ELSE counts

\* the query and the loop together: the iterator is lazy, a point is binned
\* as it is located
VisitPoint(counts, p, tb) ==
    IF InEnvelope(p, tb.bbox) THEN BinPoint(counts, p, tb) ELSE counts

MaxCount(counts) == CHOOSE m \in {counts[c] : c \in Cells} : \A c \in Cells : counts[c] <= m

\* 1000 * ln(1 + c)
Ln1pMilli(c) ==
    IF c = 0 THEN 0
    ELSE <<693, 1099, 1386, 1609, 1792, 1946, 2079, 2197, 2303, 2398>>[c]

\* a slip: the counts divided as integers before the conversion
DensityIntDiv(cnt, max_count) == (cnt \div max_count) * 1000

\* (cnt as f32).ln_1p() / (max_count as f32).ln_1p(), in thousandths
Density(cnt, max_count) == (Ln1pMilli(cnt) * 1000) \div Ln1pMilli(max_count)

Isqrt(n) == CHOOSE r \in 0..1000 : r * r <= n /\ n < (r + 1) * (r + 1)

Rgba(r, g, b, a) == [r |-> r, g |-> g, b |-> b, a |-> a]

\* v in thousandths; a quotient of two finite logarithms is finite, so the
\* !v.is_finite() arm needs no case of its own
color_map(v) ==
    IF v <= 0 THEN Rgba(0, 0, 0, 0)
    ELSE LET intensity == Max(0, Min(1000, Isqrt(v * 1000)))
             r == (ChannelMax * intensity) \div 1000
             b == ChannelMax - r
         IN  Rgba(r, 0, b, ChannelMax)

\* a slip: the buffer filled with opaque black
OpaqueImage == [c \in Cells |-> Rgba(0, 0, 0, ChannelMax)]

\* ImageBuffer::new: every channel zero
BlankImage == [c \in Cells |-> Rgba(0, 0, 0, 0)]

Colour(counts) ==
    LET max_count == MaxCount(counts)
    IN  IF max_count > 0
        THEN [c \in Cells |-> color_map(Density(counts[c], max_count))]
        ELSE BlankImage

RECURSIVE BinAll(_, _, _, _)
BinAll(tree, i, counts, tb) ==
    IF i > Len(tree) THEN counts
    ELSE BinAll(tree, i + 1, VisitPoint(counts, tree[i], tb), tb)

\* counts and image of generate_tile, up to the PNG encoder
RenderTile(zoom, x, y, tree) ==
    LET counts == BinAll(tree, 1, ZeroCounts, TileBox(zoom, x, y))
    IN  [counts |-> counts, img |-> Colour(counts)]

(***************************************************************************)
(* The partition directory the server reads: T is the newest timestamp.    *)
(***************************************************************************)
T == 4 * SecondsPerDay
HoursBefore(h) == T - h * SecondsPerHour

Row(lon, lat, ts) == <<Col("longitude", lon), Col("latitude", lat), Col("BaseDateTime", ts)>>

Partition ==
    << Row(FDouble(Num(-6)), FDouble(Num(6)), FLong(HoursBefore(48))),
       Row(FDouble(PosInf), FFloat(Num(2)), FLong(HoursBefore(30))),
       Row(FInt(-3), FFloat(Num(2)), FMillis(HoursBefore(12) * 1000)),
       <<Col("latitude", FLong(5)), Col("BaseDateTime", FStr(Rfc3339Str(At(T, 0))))>>,
       Row(FDouble(Num(2)), FDouble(Num(2)), FStr(BadStr)),
       Row(FInt(-3), FULong(2), FDate(4)) >>

(***************************************************************************)
(* The server.  tree is the RTree inside AppState.tree; mutex is its       *)
(* std::sync::Mutex: the holder of the guard, and the poison flag a guard  *)
(* dropped by a panicking thread sets.  tiles and refs hold the locals of  *)
(* the tile and range handlers in flight.  treeBy, swaps and the fields    *)
(* by, seen, acked record history: who built the published index, the      *)
(* order of the swaps, and what a tile request read.                       *)
(***************************************************************************)
VARIABLES tree, treeBy, mutex, tiles, refs, swaps, ingest, render

vars == <<tree, treeBy, mutex, tiles, refs, swaps, ingest, render>>

Tilers == 1..NumTiles
Refreshers == 1..NumRefreshes

TileGuard(t) == Some(<<"tile", t>>)
RangeGuard(r) == Some(<<"range", r>>)

\* the tile addresses requested
Addresses == {<<0, 0, 0>>, <<MaxZoom, 1, 1>>}

\* the (start, end) query parameters requested of /range
Queries ==
    { <<None, None>>,
      <<Some(BadStr), Some(DateStr(1))>>,
      <<Some(DateStr(2)), Some(BadStr)>> }

IdleTile ==
    [pc |-> "idle", addr |-> <<0, 0, 0>>, cur |-> 1, counts |-> ZeroCounts,
     img |-> BlankImage, seen |-> <<>>, by |-> 0, acked |-> {}, cause |-> "none"]

IdleRange ==
    [pc |-> "idle", query |-> <<None, None>>, start |-> None, end |-> None, tree |-> <<>>]

IdleIngest == [rows |-> <<>>, start |-> None, end |-> None, out |-> <<>>, done |-> FALSE]
IdleRender == [tree |-> <<>>, addr |-> <<0, 0, 0>>, counts |-> ZeroCounts,
               img |-> BlankImage, done |-> FALSE]

\* main: the index of the default window, published before the server starts
StartupIndex == bulk_load(load_points_from_dir(Partition, None, None))

Init ==
    /\ tree = StartupIndex
    /\ treeBy = 0
    /\ mutex = [holder |-> None, poisoned |-> FALSE]
    /\ tiles = [t \in Tilers |-> IdleTile]
    /\ refs = [r \in Refreshers |-> IdleRange]
    /\ swaps = <<>>
    /\ ingest = IdleIngest
    /\ render = IdleRender

\* a slip: the index reached without the mutex
NoMutex == TRUE

\* Mutex::lock returns once no other guard is alive
LockFree == mutex.holder = None

(***************************************************************************)
(* tile handler                                                            *)
(***************************************************************************)
\* path.into_inner() and data.tree.lock().unwrap(): lock returns once the
\* mutex is free, and with an error, on which unwrap panics, if it is poisoned
TileLock(t) ==
    /\ tiles[t].pc = "idle"
    /\ LockFree
    /\ IF mutex.poisoned
       THEN /\ tiles' = [tiles EXCEPT ![t].pc = "panicked", ![t].cause = "poison"]
            /\ UNCHANGED mutex
       ELSE /\ mutex' = [mutex EXCEPT !.holder = TileGuard(t)]
            /\ \E a \in Addresses :
                  tiles' = [tiles EXCEPT ![t].pc = "query", ![t].addr = a, ![t].by = treeBy,
                                         ![t].acked = {r \in Refreshers : refs[r].pc = "acked"}]
    /\ UNCHANGED <<tree, treeBy, refs, swaps, ingest, render>>

\* one point of the tree visited by locate_in_envelope and the binning loop;
\* once the iterator is exhausted, max_count and the pixel loop
TileQuery(t) ==
    /\ tiles[t].pc = "query"
    /\ LET me == tiles[t]
           tb == TileBox(me.addr[1], me.addr[2], me.addr[3])
       IN  IF me.cur <= Len(tree)
           THEN tiles' = [tiles EXCEPT ![t].cur = me.cur + 1,
                                       ![t].seen = Append(me.seen, tree[me.cur]),
                                       ![t].counts = VisitPoint(me.counts, tree[me.cur], tb)]
           ELSE tiles' = [tiles EXCEPT ![t].pc = "encode", ![t].img = Colour(me.counts)]
    /\ UNCHANGED <<tree, treeBy, mutex, refs, swaps, ingest, render>>

\* dropping the guard
Release(g) == [mutex EXCEPT !.holder = IF @ = g THEN None ELSE @]

\* dropping the guard while the thread unwinds from a panic
ReleasePoisoned(g) ==
    [holder |-> IF mutex.holder = g THEN None ELSE mutex.holder,
     poisoned |-> mutex.poisoned \/ mutex.holder = g]

\* write_to(..) returns Ok: the response is built, the handler returns and
\* its locals, the guard among them, go out of scope
TileEncodeOk(t) ==
    /\ tiles[t].pc = "encode"
    /\ tiles' = [tiles EXCEPT ![t] = IdleTile]
    /\ mutex' = Release(TileGuard(t))
    /\ UNCHANGED <<tree, treeBy, refs, swaps, ingest, render>>

\* write_to(..) returns Err: unwrap panics and the handler's locals are
\* dropped by the unwinding
TileEncodeErr(t) ==
    /\ tiles[t].pc = "encode"
    /\ tiles' = [tiles EXCEPT ![t] = [IdleTile EXCEPT !.pc = "panicked", !.cause = "encode"]]
    /\ mutex' = ReleasePoisoned(TileGuard(t))
    /\ UNCHANGED <<tree, treeBy, refs, swaps, ingest, render>>

(***************************************************************************)
(* range handler                                                           *)
(***************************************************************************)
AndThenParse(q, end_of_day) ==
    IF q = None THEN None ELSE parse_input_datetime(Unwrap(q), end_of_day)

RangeRequest(r) ==
    /\ refs[r].pc = "idle"
    /\ \E q \in Queries :
          refs' = [refs EXCEPT ![r].pc = "build", ![r].query = q,
                               ![r].start = AndThenParse(q[1], FALSE),
                               ![r].end = AndThenParse(q[2], TRUE)]
    /\ UNCHANGED <<tree, treeBy, mutex, tiles, swaps, ingest, render>>

\* a slip: the guard taken before ingestion and build
RangeBuildUnderGuard(r) ==
    /\ refs[r].pc = "build"
    /\ mutex.holder = None /\ ~mutex.poisoned
    /\ mutex' = [mutex EXCEPT !.holder = RangeGuard(r)]
    /\ refs' = [refs EXCEPT ![r].pc = "lock",
                            ![r].tree = bulk_load(load_points_from_dir(Partition, refs[r].start,
                                                                       refs[r].end))]
    /\ UNCHANGED <<tree, treeBy, tiles, swaps, ingest, render>>

\* ingestion and bulk build
RangeBuild(r) ==
    /\ refs[r].pc = "build"
    /\ refs' = [refs EXCEPT ![r].pc = "lock",
                            ![r].tree = bulk_load(load_points_from_dir(Partition, refs[r].start,
                                                                       refs[r].end))]
    /\ UNCHANGED <<tree, treeBy, mutex, tiles, swaps, ingest, render>>

\* a slip: try_lock, and the swap given up when the mutex is busy
RangeTryLock(r) ==
    /\ refs[r].pc = "lock"
    /\ IF mutex.holder # None
       THEN /\ refs' = [refs EXCEPT ![r].pc = "respond"]
            /\ UNCHANGED mutex
       ELSE IF mutex.poisoned
            THEN /\ refs' = [refs EXCEPT ![r].pc = "panicked"]
                 /\ UNCHANGED mutex
            ELSE /\ mutex' = [mutex EXCEPT !.holder = RangeGuard(r)]
                 /\ refs' = [refs EXCEPT ![r].pc = "swap"]
    /\ UNCHANGED <<tree, treeBy, tiles, swaps, ingest, render>>

\* let mut t = data.tree.lock().unwrap()
RangeLock(r) ==
    /\ refs[r].pc = "lock"
    /\ LockFree
    /\ IF mutex.poisoned
       THEN /\ refs' = [refs EXCEPT ![r].pc = "panicked"]
            /\ UNCHANGED mutex
       ELSE /\ mutex' = [mutex EXCEPT !.holder = RangeGuard(r)]
            /\ refs' = [refs EXCEPT ![r].pc = "swap"]
    /\ UNCHANGED <<tree, treeBy, tiles, swaps, ingest, render>>

\* *t = tree, and the block ends: the guard is dropped
RangeSwap(r) ==
    /\ refs[r].pc = "swap"
    /\ tree' = refs[r].tree
    /\ treeBy' = r
    /\ swaps' = Append(swaps, r)
    /\ mutex' = Release(RangeGuard(r))
    /\ refs' = [refs EXCEPT ![r].pc = "respond"]
    /\ UNCHANGED <<tiles, ingest, render>>

\* HttpResponse::Ok().body("ok")
RangeRespond(r) ==
    /\ refs[r].pc = "respond"
    /\ refs' = [refs EXCEPT ![r] = [IdleRange EXCEPT !.pc = "acked", !.tree = refs[r].tree]]
    /\ UNCHANGED <<tree, treeBy, mutex, tiles, swaps, ingest, render>>

Next ==
    \/ \E t \in Tilers : TileLock(t)
    \/ \E t \in Tilers : TileQuery(t)
    \/ \E t \in Tilers : TileEncodeOk(t)
    \/ \E t \in Tilers : TileEncodeErr(t)
    \/ \E r \in Refreshers : RangeRequest(r)
    \/ \E r \in Refreshers : RangeBuild(r)
    \/ \E r \in Refreshers : RangeLock(r)
    \/ \E r \in Refreshers : RangeSwap(r)
    \/ \E r \in Refreshers : RangeRespond(r)

Spec == Init /\ [][Next]_vars

(***************************************************************************)
(* The ingestor alone: load_points_from_dir applied to a drawn directory   *)
(* and a drawn window.  Row i carries longitude i.                         *)
(***************************************************************************)
LoadTimes == {HoursBefore(48), HoursBefore(30), HoursBefore(24), HoursBefore(12), T}
LoadFields == {FLong(ts) : ts \in LoadTimes} \cup {FStr(BadStr)}
LoadStarts == {None, Some(At(HoursBefore(30), 0)), Some(At(T, 0))}
LoadEnds == {None, Some(At(HoursBefore(12), 0)), Some(At(HoursBefore(48), 0))}

RowsOf(fields) == [i \in 1..Len(fields) |-> Row(FInt(i), FInt(0), fields[i])]

InitLoad ==
    /\ tree = StartupIndex
    /\ treeBy = 0
    /\ mutex = [holder |-> None, poisoned |-> FALSE]
    /\ tiles = [t \in Tilers |-> IdleTile]
    /\ refs = [r \in Refreshers |-> IdleRange]
    /\ swaps = <<>>
    /\ render = IdleRender
    /\ \E n \in 0..MaxRows : \E fields \in [1..n -> LoadFields] :
       \E start \in LoadStarts, end \in LoadEnds :
          ingest = [rows |-> RowsOf(fields), start |-> start, end |-> end,
                    out |-> <<>>, done |-> FALSE]

LoadApply ==
    /\ ~ingest.done
    /\ ingest' = [ingest EXCEPT !.out = load_points_from_dir(ingest.rows, ingest.start,
                                                             ingest.end),
                                !.done = TRUE]
    /\ UNCHANGED <<tree, treeBy, mutex, tiles, refs, swaps, render>>

SpecLoad == InitLoad /\ [][LoadApply]_vars

(***************************************************************************)
(* The renderer alone: generate_tile, up to the encoder, applied to a      *)
(* drawn index and a drawn tile address.                                   *)
(***************************************************************************)
TileXs == {-6, -1, 0}
TileYs == {-1, 0}
TilePoints == {DataPoint(Num(x), Num(y)) : x \in TileXs, y \in TileYs}
                  \cup {DataPoint(PosInf, Num(-1))}
AllAddresses == UNION {{<<z, x, y>> : x \in 0..(Pow2(z) - 1), y \in 0..(Pow2(z) - 1)} :
                       z \in 0..MaxZoom}

InitTile ==
    /\ tree = StartupIndex
    /\ treeBy = 0
    /\ mutex = [holder |-> None, poisoned |-> FALSE]
    /\ tiles = [t \in Tilers |-> IdleTile]
    /\ refs = [r \in Refreshers |-> IdleRange]
    /\ swaps = <<>>
    /\ ingest = IdleIngest
    /\ \E n \in 0..MaxPoints : \E pts \in [1..n -> TilePoints] : \E a \in AllAddresses :
          render = [IdleRender EXCEPT !.tree = bulk_load(pts), !.addr = a]

RenderApply ==
    /\ ~render.done
    /\ LET out == RenderTile(render.addr[1], render.addr[2], render.addr[3], render.tree)
       IN  render' = [render EXCEPT !.counts = out.counts, !.img = out.img, !.done = TRUE]
    /\ UNCHANGED <<tree, treeBy, mutex, tiles, refs, swaps, ingest>>

SpecTile == InitTile /\ [][RenderApply]_vars

(***************************************************************************)
(* Properties                                                              *)
(***************************************************************************)
\* the index a builder published: main (0) or a range request
IndexOf(b) == IF b = 0 THEN StartupIndex ELSE refs[b].tree

IsPrefix(a, b) == Len(a) <= Len(b) /\ \A i \in 1..Len(a) : a[i] = b[i]

Swapped(r) == \E k \in 1..Len(swaps) : swaps[k] = r
SwapPos(r) == CHOOSE k \in 1..Len(swaps) : swaps[k] = r

\* the indexes that were ever published
Published == {StartupIndex} \cup {refs[swaps[k]].tree : k \in 1..Len(swaps)}

\* C1: the points a tile request reads are, in every interleaving of tile and
\* /range requests, the points of one fully built index that was published:
\* while the request iterates it has read a prefix of that index, and when it
\* colours and encodes it has read exactly that index.
C1_TileReadsOneSnapshot ==
    \A t \in Tilers :
        /\ tiles[t].pc = "query" =>
              /\ IsPrefix(tiles[t].seen, IndexOf(tiles[t].by))
              /\ tiles[t].cur = Len(tiles[t].seen) + 1
        /\ tiles[t].pc = "encode" =>
              /\ tiles[t].seen = IndexOf(tiles[t].by)
              /\ tiles[t].seen \in Published
              /\ tiles[t].counts =
                    BinAll(tiles[t].seen, 1, ZeroCounts,
                           TileBox(tiles[t].addr[1], tiles[t].addr[2], tiles[t].addr[3]))

\* C1 witness: a tile request has read the whole index of one refresh while
\* another refresh, with a different index built, waits for the guard.
C1_Witness ==
    \E t \in Tilers, r \in Refreshers :
        /\ tiles[t].pc = "encode"
        /\ tiles[t].by # 0 /\ tiles[t].by # r
        /\ tiles[t].seen # StartupIndex
        /\ refs[r].pc = "lock"
        /\ refs[r].tree # tiles[t].seen

\* C2: a failed encoding fails that tile request alone: no other tile request
\* and no range request fails, and the mutex stays usable.
C2_EncodeFailureIsolated ==
    /\ \A t \in Tilers : tiles[t].pc = "panicked" => tiles[t].cause = "encode"
    /\ \A r \in Refreshers : refs[r].pc # "panicked"
    /\ ~mutex.poisoned

\* C3: a tile request holds the guard for the range query only: it no longer
\* holds it when it colours and encodes.
C3_GuardReleasedBeforeEncoding ==
    \A t \in Tilers : tiles[t].pc = "encode" => mutex.holder # TileGuard(t)

\* C4: a refresh ingests and builds without the guard and holds the guard only
\* to replace the published index: while it builds, or waits with its index
\* built, the mutex is not its own and the published index is not yet its own.
C4_RefreshBuildsOutsideGuard ==
    \A r \in Refreshers :
        /\ refs[r].pc \in {"build", "lock"} =>
              /\ mutex.holder # RangeGuard(r)
              /\ treeBy # r
              /\ ~Swapped(r)
        /\ mutex.holder = RangeGuard(r) => refs[r].pc = "swap"

\* C4 witness: a tile request holds the guard and has read the whole prior
\* snapshot while a refresh is building.
C4_Witness ==
    \E t \in Tilers, r \in Refreshers :
        /\ refs[r].pc = "build"
        /\ tiles[t].pc = "encode"
        /\ mutex.holder = TileGuard(t)
        /\ tiles[t].seen = tree

\* C6: every point of the published index has finite x and y.
C6_IndexFinite ==
    \A i \in 1..Len(tree) : IsFinite(tree[i].x) /\ IsFinite(tree[i].y)

Malformed(q, end_of_day) == IsSome(q) /\ parse_input_datetime(Unwrap(q), end_of_day) = None

\* C9: a /range request with a malformed start or end never fails: the bound is
\* taken as absent and the request goes on to its acknowledgement.
C9_MalformedNeverFails ==
    \A r \in Refreshers :
        (Malformed(refs[r].query[1], FALSE) \/ Malformed(refs[r].query[2], TRUE)) =>
            /\ refs[r].pc # "panicked"
            /\ Malformed(refs[r].query[1], FALSE) => refs[r].start = None
            /\ Malformed(refs[r].query[2], TRUE) => refs[r].end = None

\* C10: a tile request that takes the guard after a refresh was acknowledged
\* reads the index of that refresh or of one swapped later, and the published
\* index is always that of the last swap.
C10_AckedRefreshIsVisible ==
    /\ \A t \in Tilers :
          tiles[t].pc \in {"query", "encode"} =>
              \A r \in tiles[t].acked :
                  /\ Swapped(r)
                  /\ tiles[t].by # 0 /\ Swapped(tiles[t].by)
                  /\ SwapPos(tiles[t].by) >= SwapPos(r)
                  /\ IsPrefix(tiles[t].seen, refs[tiles[t].by].tree)
                  /\ tiles[t].pc = "encode" => tiles[t].seen = refs[tiles[t].by].tree
    /\ tree = IF swaps = <<>> THEN StartupIndex ELSE refs[swaps[Len(swaps)]].tree

\* C10 witness: two refreshes have swapped, the first to swap was acknowledged,
\* and a tile request that locked afterwards has read the index of the second.
C10_Witness ==
    \E t \in Tilers, r \in Refreshers :
        /\ tiles[t].pc = "encode"
        /\ r \in tiles[t].acked
        /\ tiles[t].by # r
        /\ SwapPos(tiles[t].by) > SwapPos(r)
        /\ refs[r].tree # refs[tiles[t].by].tree

(***************************************************************************)
(* Properties of the ingestor (SpecLoad)                                   *)
(***************************************************************************)
ParsedRows == {i \in 1..Len(ingest.rows) :
                 IsSome(get_datetime_by_name(ingest.rows[i], "BaseDateTime"))}
RowTime(i) == Unwrap(get_datetime_by_name(ingest.rows[i], "BaseDateTime"))
NewestRow == CHOOSE m \in ParsedRows : \A i \in ParsedRows : TsLe(RowTime(i), RowTime(m))
WindowEnd == UnwrapOr(ingest.end, RowTime(NewestRow))
WindowStart == UnwrapOr(ingest.start, At(WindowEnd.s - SecondsPerDay, WindowEnd.us))
WindowRows == {i \in ParsedRows : TsLe(WindowStart, RowTime(i)) /\ TsLe(RowTime(i), WindowEnd)}
OutRows == {ingest.out[j].x.n : j \in 1..Len(ingest.out)}
ExampleFields == <<FLong(HoursBefore(48)), FLong(HoursBefore(30)), FLong(HoursBefore(12)),
                   FLong(T)>>

\* C5: load_points_from_dir returns exactly the points of the rows whose
\* timestamp ts has start' <= ts <= end', end' being the explicit end or else
\* the newest timestamp and start' the explicit start or else end' - 24 h; a
\* window with start' > end' gives nothing, and the rows {T-48h, T-30h, T-12h,
\* T} with no explicit window give {T-12h, T}.
C5_WindowSelectsExactly ==
    ingest.done =>
        IF ParsedRows = {} THEN ingest.out = <<>>
        ELSE /\ OutRows = WindowRows
             /\ Len(ingest.out) = Cardinality(WindowRows)
             /\ \A j \in 1..Len(ingest.out) : ingest.out[j].y = Num(0)
             /\ \A j \in 1..(Len(ingest.out) - 1) : ingest.out[j].x.n < ingest.out[j + 1].x.n
             /\ TsLt(WindowEnd, WindowStart) => ingest.out = <<>>
             /\ (ingest.rows = RowsOf(ExampleFields) /\ ingest.start = None
                    /\ ingest.end = None) => OutRows = {3, 4}

\* C5 witness: the rows {T-48h, T-30h, T-12h, T}, no explicit window, and the
\* two rows of the last 24 hours returned.
C5_Witness ==
    /\ ingest.done
    /\ ingest.rows = RowsOf(ExampleFields)
    /\ ingest.start = None /\ ingest.end = None
    /\ Len(ingest.out) = 2

(***************************************************************************)
(* Properties of the renderer (SpecTile)                                   *)
(***************************************************************************)
RenderBox == TileBox(render.addr[1], render.addr[2], render.addr[3])
PointsInBox == {i \in 1..Len(render.tree) : InEnvelope(render.tree[i], RenderBox.bbox)}

\* C7: a tile whose bounding box holds no indexed point, and more generally a
\* tile whose largest cell count is zero, has alpha 0 in every pixel.
C7_EmptyTileTransparent ==
    render.done =>
        /\ PointsInBox = {} => MaxCount(render.counts) = 0
        /\ MaxCount(render.counts) = 0 => \A c \in Cells : render.img[c].a = 0

\* C7 witness: a rendered tile of a non-empty index whose box holds no point.
C7_Witness ==
    render.done /\ render.tree # <<>> /\ PointsInBox = {}

\* C8: in a tile whose largest cell count is positive, a pixel has alpha 255
\* exactly when its cell's count is positive and alpha 0 otherwise, and every
\* opaque pixel has green 0 and blue = 255 - red.
C8_OpaqueExactlyWhereCounted ==
    (render.done /\ MaxCount(render.counts) > 0) =>
        \A c \in Cells :
            /\ render.img[c].a = 255 <=> render.counts[c] > 0
            /\ render.counts[c] = 0 => render.img[c].a = 0
            /\ render.img[c].a = 255 =>
                  render.img[c].g = 0 /\ render.img[c].b = 255 - render.img[c].r

\* C8 witness: a rendered tile with an empty cell, a cell below the largest
\* count and a cell at the largest count.
C8_Witness ==
    /\ render.done
    /\ \E c0, c1, c2 \in Cells :
          /\ render.counts[c0] = 0
          /\ render.counts[c1] > 0 /\ render.counts[c1] < render.counts[c2]
          /\ render.img[c1].r > 0 /\ render.img[c1].r < render.img[c2].r

====
